---- MODULE Spec2Model ----
(***************************************************************************)
(* Model of src/main.py: an in-memory task store `tasks`, three HTTP       *)
(* handlers (create_task, get_status, get_result) and one background       *)
(* thread per task running hf_optimize.  Handlers and threads interleave   *)
(* between Python statements, so every statement that reads or writes the  *)
(* shared dict is a step of its own.                                       *)
(*                                                                         *)
(* Strings are ASCII here: the Russian messages of the source are          *)
(* transliterated, and the Markdown fence of three backticks is the token  *)
(* "FENCE".  A text is a sequence of tokens, an error string a sequence of *)
(* pieces.                                                                 *)
(***************************************************************************)
EXTENDS Naturals, Sequences, FiniteSets, TLC

\* Bounds of the model.
MaxTasks == 2
NumReaders == 1
MaxDdl == 2
MaxQueries == 4

Ids == 1..MaxTasks
Readers == 1..NumReaders

--------------------------------------------------------------------------
\* JSON values the upstream model can produce.

\* A value of one of the fields ddl / migrations / queries of a parsed dict:
\* a list of items, a non-list value, or no such key.
\* An item is "valid" (exactly the fields of DDLStatement / QueryItem),
\* "extra" (those fields and one more) or "invalid" (a required field missing,
\* e.g. a query without runquantity, as the prompt itself asks for).
Missing == [type |-> "missing", items |-> <<>>]
NotAList == [type |-> "str", items |-> <<>>]
ListOf(items) == [type |-> "list", items |-> items]

Dict(d, m, q, x) == [type |-> "dict", ddl |-> d, migrations |-> m, queries |-> q, extra |-> x]
NonDict(ty) == [type |-> ty, ddl |-> Missing, migrations |-> Missing, queries |-> Missing, extra |-> FALSE]
NoJson == NonDict("none")

\* json documents by name (a document is one token of a text)
JsonDoc(name) ==
    CASE name = "doc_empty"    -> Dict(ListOf(<<>>), ListOf(<<>>), ListOf(<<>>), FALSE)
      [] name = "doc_full"     -> Dict(ListOf(<<"valid">>), ListOf(<<"valid">>), ListOf(<<"valid">>), FALSE)
      [] name = "doc_extra"    -> Dict(ListOf(<<"extra">>), ListOf(<<>>), ListOf(<<"valid">>), TRUE)
      [] name = "doc_badquery" -> Dict(ListOf(<<"valid">>), ListOf(<<>>), ListOf(<<"invalid">>), FALSE)
      [] name = "doc_noddl"    -> Dict(Missing, NotAList, ListOf(<<>>), FALSE)
      [] name = "doc_nomigr"   -> Dict(ListOf(<<>>), NotAList, Missing, FALSE)
      [] name = "doc_noqueries" -> Dict(ListOf(<<>>), ListOf(<<>>), NotAList, FALSE)
      [] name = "doc_list"     -> NonDict("list")
      [] OTHER                 -> NoJson

DocNames == {"doc_empty", "doc_full", "doc_extra", "doc_badquery", "doc_noddl",
             "doc_nomigr", "doc_noqueries", "doc_list"}

--------------------------------------------------------------------------
\* Exceptions: a class and str(e).

Exc(cls, str) == [cls |-> cls, str |-> str]
NoExc == Exc("none", <<>>)

\* the classes that `except Exception` catches: every exception the pipeline
\* can raise derives from Exception
ExceptionSubclasses == {"Exception", "ValueError", "JSONDecodeError", "ReadTimeout",
                        "KeyError", "IndexError", "AttributeError"}

--------------------------------------------------------------------------
\* Text handling of hf_optimize (lines 148-163).

\* The tokens of a text: the fence, the language tag, whitespace, text that is
\* not JSON, and one token per JSON document.
Tok == {"FENCE", "json", "ws", "junk"} \cup DocNames
Text == Seq(Tok)

IsWs(tok) == tok = "ws"

\* str.lstrip(): drop the longest prefix of whitespace
LStrip[s \in Text] ==
    SubSeq(s, Cardinality({i \in 1..Len(s) : \A j \in 1..i : IsWs(s[j])}) + 1, Len(s))

\* str.rstrip(): drop the longest suffix of whitespace
RStrip[s \in Text] ==
    SubSeq(s, 1, Len(s) - Cardinality({i \in 1..Len(s) : \A j \in i..Len(s) : IsWs(s[j])}))

\* str.strip()
Strip[s \in Text] == RStrip[LStrip[s]]

\* result_text.startswith("```json")
StartsWithFenceJson(s) == Len(s) >= 2 /\ s[1] = "FENCE" /\ s[2] = "json"

\* s.split("```")[0]: the part before the first fence, all of s when there is none
BeforeFence[s \in Text] ==
    SubSeq(s, 1, Cardinality({i \in 1..Len(s) : \A j \in 1..i : s[j] # "FENCE"}))

\* lines 153-154
StripFence[s \in Text] ==
    IF StartsWithFenceJson(s) THEN Strip[BeforeFence[SubSeq(s, 3, Len(s))]] ELSE s

\* json.loads: whitespace around one document is accepted, anything else is
\* a JSONDecodeError
JsonParses[s \in Text] == Len(Strip[s]) = 1 /\ Strip[s][1] \in DocNames
JsonLoads[s \in Text] == JsonDoc(Strip[s][1])

\* lines 165-171: the first field, in the order ddl, migrations, queries, that
\* is not a list; "none" when all three are lists
FirstBadField(r) ==
    IF r.ddl.type # "list" THEN "ddl"
    ELSE IF r.migrations.type # "list" THEN "migrations"
    ELSE IF r.queries.type # "list" THEN "queries"
    ELSE "none"

--------------------------------------------------------------------------
\* The upstream endpoint: what requests.post can give back (line 141).

\* str(response.status_code)
IntStr(n) == CASE n = 200 -> "200" [] n = 503 -> "503" [] OTHER -> "int"

Response(raised, code, envelope, text) ==
    [raised |-> raised, status_code |-> code, envelope |-> envelope, text |-> text]
NoResponse == Response(FALSE, 0, "none", <<>>)

\* envelope: "ok" is [{"generated_text": text}]; "notjson" a body that is not
\* JSON; "empty" the list []; "nokey" a dict such as {"error": "..."}
Responses ==
    { Response(TRUE, 0, "none", <<>>),                \* timeout / connection error
      Response(FALSE, 503, "nokey", <<>>),
      Response(FALSE, 200, "notjson", <<>>),
      Response(FALSE, 200, "nokey", <<>>),
      Response(FALSE, 200, "ok", <<"ws", "doc_empty", "ws">>),
      Response(FALSE, 200, "ok", <<"FENCE", "json", "ws", "doc_full", "ws", "FENCE", "ws">>),
      Response(FALSE, 200, "ok", <<"FENCE", "ws", "doc_empty", "ws", "FENCE">>),
      Response(FALSE, 200, "ok", <<"junk">>),
      Response(FALSE, 200, "ok", <<"doc_extra">>),
      Response(FALSE, 200, "ok", <<"doc_badquery">>),
      Response(FALSE, 200, "ok", <<"doc_noddl">>),
      Response(FALSE, 200, "ok", <<"doc_nomigr">>),
      Response(FALSE, 200, "ok", <<"doc_noqueries">>),
      Response(FALSE, 200, "ok", <<"doc_list">>) }

\* the values os.getenv("HF_TOKEN") can have: unset, set to "", set
Tokens == {"None", "", "hf_secret"}

--------------------------------------------------------------------------
\* The request body (lines 24-35) and the prompt built from it (lines 86-116).

\* the values of DDLStatement.statement
DDLStatement == {"CREATE TABLE a", "CREATE TABLE b"}

\* the values of QueryItem
QueryItem ==
    { [queryid |-> "q1", query |-> "SELECT a", runquantity |-> 1],
      [queryid |-> "q2", query |-> "SELECT b", runquantity |-> 7] }

SeqsUpTo(S, n) == UNION {[1..k -> S] : k \in 0..n}

NewTaskRequest(ddl, queries) == [ddl |-> ddl, queries |-> queries]

NewTaskRequests ==
    { NewTaskRequest(ddl, queries) :
        ddl \in SeqsUpTo(DDLStatement, MaxDdl), queries \in SeqsUpTo(QueryItem, MaxQueries) }

\* the length of the slice request.queries[:3] (line 88)
PreviewLen == 3

\* "\n".join(lines): the pieces of the lines with the token "NL" between two
\* neighbours.  A line is a sequence of pieces.
RECURSIVE Join(_)
Join(lines) ==
    IF Len(lines) = 0 THEN <<>>
    ELSE IF Len(lines) = 1 THEN lines[1]
    ELSE lines[1] \o <<"NL">> \o Join(Tail(lines))

\* request.queries[:5], a longer preview
Preview_Five(queries) == SubSeq(queries, 1, IF Len(queries) < 5 THEN Len(queries) ELSE 5)

\* request.queries[:3]
Preview(queries) ==
    SubSeq(queries, 1, IF Len(queries) < PreviewLen THEN Len(queries) ELSE PreviewLen)

\* line 87
ddl_statements(req) == Join([i \in 1..Len(req.ddl) |-> <<req.ddl[i]>>])

\* line 88: one line per query of the preview
query_line(q) == <<q.queryid, ": ", q.query, " (vypolnyaetsya ", ToString(q.runquantity), " raz)">>
query_examples(req) ==
    Join([i \in 1..Len(Preview(req.queries)) |-> query_line(Preview(req.queries)[i])])

\* lines 90-116: the f-string, its fixed text as one token per paragraph
Prompt(req) ==
    <<"NL", "Ty - ekspert po optimizacii Data Lakehouse ...", "NL", "DDL:", "NL">>
        \o ddl_statements(req)
        \o <<"NL", "NL", "Primery zaprosov:", "NL">>
        \o query_examples(req)
        \o <<"NL", "NL", "Verni tolko JSON, bez poyasnenij.", "NL">>
NoPrompt == <<>>

--------------------------------------------------------------------------
\* The task store (line 21) and what an entry's "result" can hold.

StoredResult(kind, json, error, message) ==
    [kind |-> kind, json |-> json, error |-> error, message |-> message]
None == StoredResult("None", NoJson, <<>>, "")
JsonResult(j) == StoredResult("json", j, <<>>, "")
\* lines 180-183
ErrorResult(e) ==
    StoredResult("error", NoJson, e.str,
                 "Ne udalos vypolnit optimizaciyu. Proverte vhodnye dannye i token.")

Task(status, result) == [status |-> status, result |-> result]

VARIABLES
    HF_TOKEN,   \* the process environment's HF_TOKEN
    tasks,      \* the dict `tasks`: task id -> [status, result]
    creq,       \* per id: where the create_task call that draws this id stands
    thr,        \* per id: the background thread running hf_optimize(id, request)
    rd,         \* per reader: a client's get_status / get_result call
    client,     \* per id: what the clients have done with it: "none" until
                \* create_task has returned it, "has_id" once it has, "polled"
                \* once a client has sent a request with the returned id
    posts,      \* per id: how many times the thread of the task has called
                \* requests.post (line 141)
    request,    \* the body of a POST /new: the argument `request` of hf_optimize
    prompt      \* the local `prompt` of hf_optimize (lines 90-116)

vars == <<HF_TOKEN, tasks, creq, thr, rd, client, posts, request, prompt>>

Thread(pc, response, result, e) == [pc |-> pc, response |-> response, result |-> result, e |-> e]

\* an HTTP response: the line of the handler that produced it, the status
\* code, the error detail, and the body of a 200 (status or payload)
Resp(line, code, detail, status, payload) ==
    [line |-> line, code |-> code, detail |-> detail, status |-> status, payload |-> payload]
NoResp == Resp(0, 0, <<>>, "", None)

\* a client's call: the handler and where it stands, the task_id sent, and
\* `when`, what the clients had done with that id when the call was issued
Reader(op, pc, id, when, resp) ==
    [op |-> op, pc |-> pc, id |-> id, when |-> when, resp |-> resp]
Idle == Reader("none", "idle", 1, "none", NoResp)

Init ==
    /\ HF_TOKEN \in Tokens
    /\ tasks = <<>>
    /\ creq = [i \in Ids |-> "idle"]
    /\ thr = [i \in Ids |-> Thread("unstarted", NoResponse, NoJson, NoExc)]
    /\ rd = [r \in Readers |-> Idle]
    /\ client = [i \in Ids |-> "none"]
    /\ posts = [i \in Ids |-> 0]
    /\ request = NewTaskRequest(<<>>, <<>>)
    /\ prompt = NoPrompt

--------------------------------------------------------------------------
\* create_task (lines 49-57)

\* str(uuid.uuid4()): an id no earlier call has drawn.  Ids are opaque, so the
\* k-th id drawn is named k.
uuid4 == {i \in Ids : i \notin DOMAIN tasks /\ \A j \in Ids : j < i => j \in DOMAIN tasks}

\* lines 51-52 with another initial status
create_task_insert_pending(t) ==
    /\ t \in uuid4
    /\ creq[t] = "idle"
    /\ tasks' = [i \in DOMAIN tasks \cup {t} |->
                    IF i = t THEN Task("PENDING", None) ELSE tasks[i]]
    /\ creq' = [creq EXCEPT ![t] = "inserted"]
    /\ UNCHANGED <<request, prompt, posts, HF_TOKEN, thr, rd, client>>

\* lines 51-52 with a store that keeps the newest entry only
create_task_insert_evict(t) ==
    /\ t \in uuid4
    /\ creq[t] = "idle"
    /\ tasks' = [i \in {t} |-> Task("RUNNING", None)]
    /\ creq' = [creq EXCEPT ![t] = "inserted"]
    /\ UNCHANGED <<request, prompt, posts, HF_TOKEN, thr, rd, client>>

\* lines 51-52
create_task_insert(t) ==
    /\ t \in uuid4
    /\ creq[t] = "idle"
    /\ tasks' = [i \in DOMAIN tasks \cup {t} |->
                    IF i = t THEN Task("RUNNING", None) ELSE tasks[i]]
    /\ creq' = [creq EXCEPT ![t] = "inserted"]
    /\ UNCHANGED <<request, prompt, posts, HF_TOKEN, thr, rd, client>>

\* lines 51-52 when uuid4, a random draw, gives an id that is in the store: the
\* assignment of line 52 makes no membership test and replaces the entry.
\* Taken here once the earlier call has returned and its thread has finished;
\* the per-id records then follow the new task, which has no thread yet.
create_task_insert_again(t) ==
    /\ t \in DOMAIN tasks
    /\ creq[t] = "returned"
    /\ thr[t].pc = "finished"
    /\ tasks' = [tasks EXCEPT ![t] = Task("RUNNING", None)]
    /\ creq' = [creq EXCEPT ![t] = "inserted"]
    /\ thr' = [thr EXCEPT ![t] = Thread("unstarted", NoResponse, NoJson, NoExc)]
    /\ posts' = [posts EXCEPT ![t] = 0]
    /\ UNCHANGED <<request, prompt, HF_TOKEN, rd, client>>

\* lines 54-55
create_task_start(t) ==
    /\ creq[t] = "inserted"
    /\ creq' = [creq EXCEPT ![t] = "started"]
    /\ thr' = [thr EXCEPT ![t].pc = "ready"]
    /\ UNCHANGED <<request, prompt, posts, HF_TOKEN, tasks, rd, client>>

\* line 57 after a thread.join(): the handler waits for the unit of work
create_task_return_join(t) ==
    /\ creq[t] = "started"
    /\ thr[t].pc = "finished"
    /\ creq' = [creq EXCEPT ![t] = "returned"]
    /\ client' = [client EXCEPT ![t] = "has_id"]
    /\ UNCHANGED <<request, prompt, posts, HF_TOKEN, tasks, thr, rd>>

\* line 57
create_task_return(t) ==
    /\ creq[t] = "started"
    /\ creq' = [creq EXCEPT ![t] = "returned"]
    /\ client' = [client EXCEPT ![t] = "has_id"]
    /\ UNCHANGED <<request, prompt, posts, HF_TOKEN, tasks, thr, rd>>

--------------------------------------------------------------------------
\* hf_optimize (lines 81-183), the background thread of task t

\* a handler that catches ValueError only
Caught_ValueError(e) == e.cls \in {"ValueError", "JSONDecodeError"}

\* `except Exception as e` (line 177)
Caught(e) == e.cls \in ExceptionSubclasses

\* a raise inside the try block: to the handler when it catches e, else the
\* thread dies with the exception
Raised(response, e) == Thread(IF Caught(e) THEN "except" ELSE "died", response, NoJson, e)

Raise(t, e) ==
    thr' = [thr EXCEPT ![t].pc = IF Caught(e) THEN "except" ELSE "died", ![t].e = e]

\* lines 83-124 without the test of line 123
hf_begin_nocheck(t) ==
    /\ thr[t].pc = "ready"
    /\ thr' = [thr EXCEPT ![t].pc = "post"]
    /\ UNCHANGED <<request, prompt, posts, HF_TOKEN, tasks, creq, rd, client>>

\* lines 83-124: build the prompt, read the credential
hf_begin(t) ==
    /\ thr[t].pc = "ready"
    /\ IF HF_TOKEN \in {"None", ""}
         THEN Raise(t, Exc("Exception", <<"HF_TOKEN", " ne ustanovlen">>))
         ELSE thr' = [thr EXCEPT ![t].pc = "post"]
    /\ UNCHANGED <<request, prompt, posts, HF_TOKEN, tasks, creq, rd, client>>

\* lines 144-146
error_msg(response) ==
    <<"HF API vernul ", IntStr(response.status_code), ": ", "response.text">>

\* lines 140-146 inside a retry loop: a failed attempt is made once more
hf_post_retry(t) ==
    /\ thr[t].pc = "post"
    /\ posts' = [posts EXCEPT ![t] = @ + 1]
    /\ \E response \in Responses :
         IF (response.raised \/ response.status_code # 200) /\ posts[t] < 1
           THEN thr' = [thr EXCEPT ![t].response = response]
         ELSE IF response.raised
           THEN thr' = [thr EXCEPT ![t] = Raised(response, Exc("ReadTimeout", <<"Read timed out.">>))]
           ELSE IF response.status_code # 200
             THEN thr' = [thr EXCEPT ![t] = Raised(response, Exc("Exception", error_msg(response)))]
             ELSE thr' = [thr EXCEPT ![t].pc = "parse", ![t].response = response]
    /\ UNCHANGED <<request, prompt, HF_TOKEN, tasks, creq, rd, client>>

\* lines 140-146: the upstream call
hf_post(t) ==
    /\ thr[t].pc = "post"
    /\ posts' = [posts EXCEPT ![t] = @ + 1]
    /\ \E response \in Responses :
         IF response.raised
           THEN thr' = [thr EXCEPT ![t] = Raised(response, Exc("ReadTimeout", <<"Read timed out.">>))]
           ELSE IF response.status_code # 200
             THEN thr' = [thr EXCEPT ![t] = Raised(response, Exc("Exception", error_msg(response)))]
             ELSE thr' = [thr EXCEPT ![t].pc = "parse", ![t].response = response]
    /\ UNCHANGED <<request, prompt, HF_TOKEN, tasks, creq, rd, client>>

\* line 148: response.json()[0]["generated_text"], the exception it raises
EnvelopeError(response) ==
    CASE response.envelope = "notjson" -> Exc("JSONDecodeError", <<"Expecting value">>)
      [] response.envelope = "empty"   -> Exc("IndexError", <<"list index out of range">>)
      [] response.envelope = "nokey"   -> Exc("KeyError", <<"0">>)
      [] OTHER                         -> NoExc

\* lines 148-171 as a function of the response: the exception raised, NoExc
\* when every stage passes
ParseError(response) ==
    IF response.envelope # "ok" THEN EnvelopeError(response)
    ELSE LET result_text == StripFence[Strip[response.text]] IN
         IF ~JsonParses[result_text]
           THEN Exc("Exception", <<"Nevalidnyj JSON: ", "Expecting value">>)
         ELSE LET result == JsonLoads[result_text] IN
              IF result.type # "dict"
                THEN Exc("AttributeError", <<"object has no attribute ", "get">>)
              ELSE IF FirstBadField(result) # "none"
                THEN Exc("ValueError", <<"Otvet ne soderzhit spiska ", FirstBadField(result)>>)
              ELSE NoExc

\* lines 148-171: the value of `result` when every stage passes
ParseResult(response) == JsonLoads[StripFence[Strip[response.text]]]

\* lines 148-171: envelope, fence, json.loads, structure check
hf_parse(t) ==
    /\ thr[t].pc = "parse"
    /\ IF ParseError(thr[t].response) # NoExc
         THEN Raise(t, ParseError(thr[t].response))
         ELSE thr' = [thr EXCEPT ![t].pc = "store_result",
                                 ![t].result = ParseResult(thr[t].response)]
    /\ UNCHANGED <<request, prompt, posts, HF_TOKEN, tasks, creq, rd, client>>

\* line 173
hf_store_result(t) ==
    /\ thr[t].pc = "store_result"
    /\ tasks' = [tasks EXCEPT ![t].result = JsonResult(thr[t].result)]
    /\ thr' = [thr EXCEPT ![t].pc = "store_status"]
    /\ UNCHANGED <<request, prompt, posts, HF_TOKEN, creq, rd, client>>

\* lines 174-175, with a line 175 that raises after the status is written
hf_store_status_raises(t) ==
    /\ thr[t].pc = "store_status"
    /\ tasks' = [tasks EXCEPT ![t].status = "DONE"]
    /\ thr' = [thr EXCEPT ![t].pc = "except", ![t].e = Exc("Exception", <<"logging">>)]
    /\ UNCHANGED <<request, prompt, posts, HF_TOKEN, creq, rd, client>>

\* lines 174-175
hf_store_status(t) ==
    /\ thr[t].pc = "store_status"
    /\ tasks' = [tasks EXCEPT ![t].status = "DONE"]
    /\ thr' = [thr EXCEPT ![t].pc = "finished"]
    /\ UNCHANGED <<request, prompt, posts, HF_TOKEN, creq, rd, client>>

\* lines 177-179 with a status write that reaches every entry of the store
hf_except_status_all(t) ==
    /\ thr[t].pc = "except"
    /\ tasks' = [i \in DOMAIN tasks |-> [tasks[i] EXCEPT !.status = "FAILED"]]
    /\ thr' = [thr EXCEPT ![t].pc = "except_result"]
    /\ UNCHANGED <<request, prompt, posts, HF_TOKEN, creq, rd, client>>

\* lines 177-179
hf_except_status(t) ==
    /\ thr[t].pc = "except"
    /\ tasks' = [tasks EXCEPT ![t].status = "FAILED"]
    /\ thr' = [thr EXCEPT ![t].pc = "except_result"]
    /\ UNCHANGED <<request, prompt, posts, HF_TOKEN, creq, rd, client>>

\* lines 180-183
hf_except_result(t) ==
    /\ thr[t].pc = "except_result"
    /\ tasks' = [tasks EXCEPT ![t].result = ErrorResult(thr[t].e)]
    /\ thr' = [thr EXCEPT ![t].pc = "finished"]
    /\ UNCHANGED <<request, prompt, posts, HF_TOKEN, creq, rd, client>>

--------------------------------------------------------------------------
\* get_status (lines 59-63), called by reader r

Respond(r, resp) == rd' = [rd EXCEPT ![r].pc = "responded", ![r].resp = resp]

HTTPException(line, status_code, detail) == Resp(line, status_code, detail, "", None)

\* an exception no handler catches: the framework answers 500 with its own body
InternalServerError(line) == Resp(line, 500, <<"Internal Server Error">>, "", None)

\* a client sends a request with task_id = id: from then on a returned id has
\* been polled
Polled(id) == [client EXCEPT ![id] = IF client[id] = "none" THEN "none" ELSE "polled"]

\* a client sends GET /status?task_id=id
call_get_status(r, id) ==
    /\ rd[r].pc = "idle"
    /\ rd' = [rd EXCEPT ![r] = Reader("get_status", "status_61", id, client[id], NoResp)]
    /\ client' = Polled(id)
    /\ UNCHANGED <<request, prompt, posts, HF_TOKEN, tasks, creq, thr>>

\* lines 61-62 without the membership test: tasks[task_id] raises KeyError
get_status_lookup_nocheck(r) ==
    /\ rd[r].pc = "status_61"
    /\ IF rd[r].id \notin DOMAIN tasks
         THEN Respond(r, InternalServerError(63))
         ELSE rd' = [rd EXCEPT ![r].pc = "status_63"]
    /\ UNCHANGED <<request, prompt, posts, HF_TOKEN, tasks, creq, thr, client>>

\* lines 61-62
get_status_lookup(r) ==
    /\ rd[r].pc = "status_61"
    /\ IF rd[r].id \notin DOMAIN tasks
         THEN Respond(r, HTTPException(62, 404, <<"Task not found">>))
         ELSE rd' = [rd EXCEPT ![r].pc = "status_63"]
    /\ UNCHANGED <<request, prompt, posts, HF_TOKEN, tasks, creq, thr, client>>

\* line 63
get_status_return(r) ==
    /\ rd[r].pc = "status_63"
    /\ Respond(r, Resp(63, 200, <<>>, tasks[rd[r].id].status, None))
    /\ UNCHANGED <<request, prompt, posts, HF_TOKEN, tasks, creq, thr, client>>

--------------------------------------------------------------------------
\* get_result (lines 66-77), called by reader r

\* a client sends GET /getresult?task_id=id
call_get_result(r, id) ==
    /\ rd[r].pc = "idle"
    /\ rd' = [rd EXCEPT ![r] = Reader("get_result", "result_68", id, client[id], NoResp)]
    /\ client' = Polled(id)
    /\ UNCHANGED <<request, prompt, posts, HF_TOKEN, tasks, creq, thr>>

\* lines 68-70: `task` is a reference to the entry, so the later reads see the
\* entry as it is when they run
get_result_lookup(r) ==
    /\ rd[r].pc = "result_68"
    /\ IF rd[r].id \notin DOMAIN tasks
         THEN Respond(r, HTTPException(70, 404, <<"Task not found">>))
         ELSE rd' = [rd EXCEPT ![r].pc = "result_71"]
    /\ UNCHANGED <<request, prompt, posts, HF_TOKEN, tasks, creq, thr, client>>

\* line 71
get_result_failed_test(r) ==
    /\ rd[r].pc = "result_71"
    /\ rd' = [rd EXCEPT ![r].pc =
                 IF tasks[rd[r].id].status = "FAILED" THEN "result_72" ELSE "result_74"]
    /\ UNCHANGED <<request, prompt, posts, HF_TOKEN, tasks, creq, thr, client>>

\* line 72: task.get("result", {}).get("error", "Unknown error").  The key
\* "result" is always there, so the default {} is never used: on None the
\* second .get raises AttributeError
error_detail(result) ==
    CASE result.kind = "None"  -> InternalServerError(72)
      [] result.kind = "error" -> HTTPException(73, 500, result.error)
      [] OTHER                 -> HTTPException(73, 500, <<"Unknown error">>)

\* lines 72-73 with task.pop("result") in place of task.get("result", {})
get_result_failed_pop(r) ==
    /\ rd[r].pc = "result_72"
    /\ Respond(r, error_detail(tasks[rd[r].id].result))
    /\ tasks' = [tasks EXCEPT ![rd[r].id].result = None]
    /\ UNCHANGED <<request, prompt, posts, HF_TOKEN, creq, thr, client>>

\* lines 72-73
get_result_failed(r) ==
    /\ rd[r].pc = "result_72"
    /\ Respond(r, error_detail(tasks[rd[r].id].result))
    /\ UNCHANGED <<request, prompt, posts, HF_TOKEN, tasks, creq, thr, client>>

\* lines 74-75 with the test `== "RUNNING"` in place of `!= "DONE"`
get_result_done_test_running(r) ==
    /\ rd[r].pc = "result_74"
    /\ IF tasks[rd[r].id].status = "RUNNING"
         THEN Respond(r, HTTPException(75, 400, <<"Task not ready">>))
         ELSE rd' = [rd EXCEPT ![r].pc = "result_77"]
    /\ UNCHANGED <<request, prompt, posts, HF_TOKEN, tasks, creq, thr, client>>

\* lines 74-75
get_result_done_test(r) ==
    /\ rd[r].pc = "result_74"
    /\ IF tasks[rd[r].id].status # "DONE"
         THEN Respond(r, HTTPException(75, 400, <<"Task not ready">>))
         ELSE rd' = [rd EXCEPT ![r].pc = "result_77"]
    /\ UNCHANGED <<request, prompt, posts, HF_TOKEN, tasks, creq, thr, client>>

\* response_model=OptimizationResult (lines 43-46, 66): the returned value is
\* validated against the model and serialized with the model's fields only
ItemValidates(item) == item \in {"valid", "extra"}
FieldValidates(f) == f.type = "list" /\ \A i \in 1..Len(f.items) : ItemValidates(f.items[i])
Validates(result) ==
    /\ result.kind = "json"
    /\ result.json.type = "dict"
    /\ FieldValidates(result.json.ddl)
    /\ FieldValidates(result.json.migrations)
    /\ FieldValidates(result.json.queries)
\* a serializer that loses the items
SerializeField_Drop(f) == ListOf(<<>>)

SerializeField(f) == ListOf([i \in 1..Len(f.items) |-> "valid"])
Serialize(result) ==
    JsonResult(Dict(SerializeField(result.json.ddl), SerializeField(result.json.migrations),
                    SerializeField(result.json.queries), FALSE))
response_model(result) ==
    IF Validates(result) THEN Resp(77, 200, <<>>, "", Serialize(result))
    ELSE InternalServerError(77)

\* line 77
get_result_return(r) ==
    /\ rd[r].pc = "result_77"
    /\ Respond(r, response_model(tasks[rd[r].id].result))
    /\ UNCHANGED <<request, prompt, posts, HF_TOKEN, tasks, creq, thr, client>>

\* the response has gone to the client; the reader is free for its next call
reader_done(r) ==
    /\ rd[r].pc = "responded"
    /\ rd' = [rd EXCEPT ![r] = Idle]
    /\ UNCHANGED <<request, prompt, posts, HF_TOKEN, tasks, creq, thr, client>>

--------------------------------------------------------------------------
ThreadStep(t) ==
    \/ hf_begin(t)
    \/ hf_post(t)
    \/ hf_parse(t)
    \/ hf_store_result(t)
    \/ hf_store_status(t)
    \/ hf_except_status(t)
    \/ hf_except_result(t)

Next ==
    \/ \E t \in Ids : create_task_insert(t)
    \/ \E t \in Ids : create_task_start(t)
    \/ \E t \in Ids : create_task_return(t)
    \/ \E t \in Ids : hf_begin(t)
    \/ \E t \in Ids : hf_post(t)
    \/ \E t \in Ids : hf_parse(t)
    \/ \E t \in Ids : hf_store_result(t)
    \/ \E t \in Ids : hf_store_status(t)
    \/ \E t \in Ids : hf_except_status(t)
    \/ \E t \in Ids : hf_except_result(t)
    \/ \E r \in Readers, id \in Ids : call_get_status(r, id)
    \/ \E r \in Readers : get_status_lookup(r)
    \/ \E r \in Readers : get_status_return(r)
    \/ \E r \in Readers, id \in Ids : call_get_result(r, id)
    \/ \E r \in Readers : get_result_lookup(r)
    \/ \E r \in Readers : get_result_failed_test(r)
    \/ \E r \in Readers : get_result_failed(r)
    \/ \E r \in Readers : get_result_done_test(r)
    \/ \E r \in Readers : get_result_return(r)
    \/ \E r \in Readers : reader_done(r)

Spec == Init /\ [][Next]_vars

\* The steps of create_task and of the background threads alone.  The readers'
\* steps leave tasks, creq and thr unchanged, so the progress of a task does not
\* depend on them.
NextTask ==
    \/ \E t \in Ids : create_task_insert(t)
    \/ \E t \in Ids : create_task_start(t)
    \/ \E t \in Ids : create_task_return(t)
    \/ \E t \in Ids : hf_begin(t)
    \/ \E t \in Ids : hf_post(t)
    \/ \E t \in Ids : hf_parse(t)
    \/ \E t \in Ids : hf_store_result(t)
    \/ \E t \in Ids : hf_store_status(t)
    \/ \E t \in Ids : hf_except_status(t)
    \/ \E t \in Ids : hf_except_result(t)

\* Fair scheduling: the handler thread of a create_task call and the
\* background thread of a task each take their next step eventually.  The
\* upstream call returns or raises within its timeout (line 141), so hf_post
\* is a step like the others.
FairSpec ==
    /\ Init /\ [][NextTask]_vars
    /\ \A t \in Ids : WF_vars(create_task_start(t))
    /\ \A t \in Ids : WF_vars(ThreadStep(t))

\* The store when uuid4 can repeat an id: the steps of create_task and of the
\* threads, and the registration of an id that is already there.
NextCollision ==
    \/ NextTask
    \/ \E t \in Ids : create_task_insert_again(t)

CollisionSpec == Init /\ [][NextCollision]_vars

\* The prompt as a function of the request: hf_optimize builds it before
\* anything else (lines 86-116), whatever the credential and the store.
InitPrompt ==
    /\ HF_TOKEN \in Tokens
    /\ tasks = <<>>
    /\ creq = [i \in Ids |-> "idle"]
    /\ thr = [i \in Ids |-> Thread("unstarted", NoResponse, NoJson, NoExc)]
    /\ rd = [r \in Readers |-> Idle]
    /\ client = [i \in Ids |-> "none"]
    /\ posts = [i \in Ids |-> 0]
    /\ request \in NewTaskRequests
    /\ prompt = NoPrompt

\* lines 86-116
hf_prompt ==
    /\ prompt = NoPrompt
    /\ prompt' = Prompt(request)
    /\ UNCHANGED <<request, posts, HF_TOKEN, tasks, creq, thr, rd, client>>

PromptSpec == InitPrompt /\ [][hf_prompt]_vars

--------------------------------------------------------------------------
Terminal == {"DONE", "FAILED"}

\* C1: under fair scheduling every task that create_task has registered
\* eventually has status DONE or FAILED, whichever stage of hf_optimize fails.
C1_EveryTaskTerminates ==
    \A t \in Ids : (t \in DOMAIN tasks) ~> (t \in DOMAIN tasks /\ tasks[t].status \in Terminal)

\* one task has failed in the last stage (the structure check) and its thread
\* has finished, the other has finished DONE
C1_Witness ==
    /\ DOMAIN tasks = Ids
    /\ \E t \in Ids : /\ thr[t].pc = "finished"
                      /\ tasks[t].status = "FAILED"
                      /\ tasks[t].result.error = <<"Otvet ne soderzhit spiska ", "queries">>
    /\ \E t \in Ids : thr[t].pc = "finished" /\ tasks[t].status = "DONE"

\* C2: once a task's stored status is DONE or FAILED no step of any thread
\* changes it, get_status returns the stored status as it is, and so a terminal
\* value a get_status call has returned is the stored status ever after.
C2_TerminalStable ==
    /\ [][\A t \in DOMAIN tasks :
            tasks[t].status \in Terminal =>
                t \in DOMAIN tasks' /\ tasks'[t].status = tasks[t].status]_vars
    /\ [][\A r \in Readers :
            (rd[r].pc = "status_63" /\ rd'[r].pc = "responded") =>
                rd'[r].resp.status = tasks[rd[r].id].status]_vars
    /\ [](\A r \in Readers :
            (rd[r].pc = "responded" /\ rd[r].op = "get_status" /\ rd[r].resp.status \in Terminal)
                => tasks[rd[r].id].status = rd[r].resp.status)

\* a get_status call has answered DONE for a task whose thread has finished
C2_Witness ==
    \E r \in Readers :
        /\ rd[r].pc = "responded" /\ rd[r].op = "get_status"
        /\ rd[r].resp.status = "DONE"
        /\ thr[rd[r].id].pc = "finished"

--------------------------------------------------------------------------
\* a client's first request with an id after create_task has returned it
FirstCall(r, op) == rd[r].op = op /\ rd[r].when = "has_id"
\* a request issued at any time after create_task has returned the id
LaterCall(r, op) == rd[r].op = op /\ rd[r].when \in {"has_id", "polled"}
\* the background thread of t has written a terminal status (line 174 or 179)
WroteStatus(t) == thr[t].pc \in {"finished", "except_result"}

\* C3 as stated: the first get_status a client issues for an id after
\* create_task has returned it answers RUNNING, however the background thread
\* has interleaved.
C3_Original ==
    \A r \in Readers :
        (rd[r].pc = "responded" /\ FirstCall(r, "get_status"))
            => (rd[r].resp.code = 200 /\ rd[r].resp.status = "RUNNING")

\* C3 as amended: a get_status issued after create_task has returned the id
\* never answers "Task not found"; it answers the stored status, which is
\* RUNNING unless the background thread has already written DONE or FAILED.
C3_StatusAfterCreate ==
    \A r \in Readers :
        (rd[r].pc = "responded" /\ LaterCall(r, "get_status"))
            => /\ rd[r].resp.code = 200
               /\ rd[r].resp.status \in {"RUNNING", "DONE", "FAILED"}
               /\ rd[r].resp.status # "RUNNING" =>
                     (WroteStatus(rd[r].id) /\ tasks[rd[r].id].status = rd[r].resp.status)
               /\ ~WroteStatus(rd[r].id) => rd[r].resp.status = "RUNNING"

\* the first get_status after the return has answered FAILED: the thread failed
\* on the missing credential before the client's request was served
C3_Witness ==
    \E r \in Readers :
        /\ rd[r].pc = "responded" /\ FirstCall(r, "get_status")
        /\ rd[r].resp.status = "FAILED"
        /\ HF_TOKEN = "None"

\* C4: a get_result call that finds the status FAILED answers 500 with the
\* diagnostic string the runner stores, also between the runner's two writes.
C4_FailedGivesDiagnostic ==
    \A r \in Readers :
        (rd[r].pc = "responded" /\ rd[r].op = "get_result" /\ rd[r].resp.line \in {72, 73})
            => /\ rd[r].resp.code = 500
               /\ rd[r].resp.detail # <<"Internal Server Error">>
               /\ tasks[rd[r].id].result.kind = "error" =>
                     rd[r].resp.detail = tasks[rd[r].id].result.error

\* C5: every entry is (RUNNING, None), (DONE, a validated result) or
\* (FAILED, an error descriptor).
C5_ConsistentShapes ==
    \A t \in DOMAIN tasks :
        \/ tasks[t].status = "RUNNING" /\ tasks[t].result = None
        \/ /\ tasks[t].status = "DONE"
           /\ tasks[t].result.kind = "json"
           /\ tasks[t].result.json.type = "dict"
           /\ FirstBadField(tasks[t].result.json) = "none"
        \/ tasks[t].status = "FAILED" /\ tasks[t].result.kind = "error"

\* C6: get_result answers 200 only from line 77, which it reaches only after
\* reading status DONE at line 74, and then the entry is DONE and holds the
\* parsed result; when the status it reads at line 74 is RUNNING it answers
\* 400 "Task not ready".
C6_NoResultBeforeDone ==
    /\ [](\A r \in Readers :
            /\ rd[r].pc = "result_77" =>
                  (tasks[rd[r].id].status = "DONE" /\ tasks[rd[r].id].result.kind = "json")
            /\ (rd[r].pc = "responded" /\ rd[r].op = "get_result" /\ rd[r].resp.code = 200) =>
                  /\ rd[r].resp.line = 77
                  /\ tasks[rd[r].id].status = "DONE"
                  /\ rd[r].resp.payload.kind = "json")
    /\ [][\A r \in Readers :
            (rd[r].pc = "result_74" /\ tasks[rd[r].id].status = "RUNNING" /\ rd'[r] # rd[r])
                => rd'[r].resp = HTTPException(75, 400, <<"Task not ready">>)]_vars

\* get_result has answered "Task not ready" for a task that is still RUNNING
\* although its result is already stored (the thread is between lines 173 and
\* 174)
C6_Witness ==
    \E r \in Readers :
        /\ rd[r].pc = "responded" /\ rd[r].op = "get_result"
        /\ rd[r].resp = HTTPException(75, 400, <<"Task not ready">>)
        /\ thr[rd[r].id].pc = "store_status"
        /\ tasks[rd[r].id].result.kind = "json"

--------------------------------------------------------------------------
Fields == {"ddl", "migrations", "queries"}

C8_Original ==
    \A r \in Readers :
        (rd[r].pc = "responded" /\ client[rd[r].id] = "none") => rd[r].resp.code = 404

\* C8 as amended: get_status and get_result answer 404 "Task not found" for an
\* id that create_task has not registered in the store (line 52), whatever
\* other tasks exist; an id that is registered but not yet returned is found.
C8_UnknownIdNotFound ==
    \A r \in Readers :
        /\ (rd[r].pc = "responded" /\ rd[r].id \notin DOMAIN tasks)
              => (rd[r].resp.code = 404 /\ rd[r].resp.detail = <<"Task not found">>)
        /\ (rd[r].pc = "responded" /\ rd[r].resp.code = 404) => rd[r].when = "none"

\* a request for an id never registered has been answered 404 while another
\* task exists and is DONE
C8_Witness ==
    \E r \in Readers :
        /\ rd[r].pc = "responded" /\ rd[r].resp.code = 404
        /\ rd[r].id \notin DOMAIN tasks
        /\ \E t \in DOMAIN tasks : tasks[t].status = "DONE"

\* the first stage of hf_optimize(t) that fails, "none" when all pass
FailingStage(t) ==
    LET response == thr[t].response IN
    IF HF_TOKEN \in {"None", ""} THEN "credential"
    ELSE IF response.raised \/ response.status_code # 200 THEN "upstream"
    ELSE IF response.envelope # "ok" THEN "envelope"
    ELSE IF ~JsonParses[StripFence[Strip[response.text]]] THEN "json"
    ELSE IF \/ JsonLoads[StripFence[Strip[response.text]]].type # "dict"
            \/ \E f \in Fields : JsonLoads[StripFence[Strip[response.text]]][f].type # "list"
         THEN "structure"
    ELSE "none"

Contains(str, piece) == \E i \in 1..Len(str) : str[i] = piece

\* C9: a finished task is DONE exactly when the credential is set, the
\* upstream answers 200, the envelope has the generated text, the text parses
\* and ddl, migrations and queries are lists, and then holds the parsed
\* structure; otherwise it is FAILED with the error of the first failing stage.
C9_OutcomeByStage ==
    \A t \in Ids : thr[t].pc = "finished" =>
        LET stage == FailingStage(t)
            error == tasks[t].result.error
            response == thr[t].response
        IN  /\ tasks[t].status = "DONE" <=> stage = "none"
            /\ stage = "none" =>
                 tasks[t].result = JsonResult(JsonLoads[StripFence[Strip[response.text]]])
            /\ stage # "none" =>
                 /\ tasks[t].status = "FAILED"
                 /\ tasks[t].result.kind = "error" /\ error # <<>>
                 /\ tasks[t].result.message # ""
            /\ stage = "credential" => (Contains(error, "HF_TOKEN") /\ response = NoResponse)
            /\ (stage = "upstream" /\ ~response.raised) =>
                 Contains(error, IntStr(response.status_code))
            /\ (stage = "upstream" /\ response.raised) => error = <<"Read timed out.">>
            /\ stage = "envelope" => error = EnvelopeError(response).str
            /\ stage = "json" => error[1] = "Nevalidnyj JSON: "
            /\ stage = "structure" =>
                 \/ error = <<"object has no attribute ", "get">>
                 \/ \E f \in Fields : error = <<"Otvet ne soderzhit spiska ", f>>

\* a task has finished FAILED on an upstream 503 with "503" in its error
C9_Witness ==
    \E t \in Ids :
        /\ thr[t].pc = "finished"
        /\ thr[t].response.status_code = 503
        /\ tasks[t].status = "FAILED"
        /\ Contains(tasks[t].result.error, "503")

\* C10 as stated: a task is DONE or FAILED only after create_task has
\* returned its id.
C10_Original ==
    \A t \in DOMAIN tasks : tasks[t].status \in Terminal => creq[t] = "returned"

\* C10 as amended: create_task never waits for the unit of work: once it has
\* started the thread its return is possible whatever the thread is doing, and
\* a task is DONE or FAILED only after create_task has started its thread; the
\* return itself can come after the transition when the thread is quick.
C10_ReturnDoesNotWait ==
    \A t \in Ids :
        /\ creq[t] = "started" => ENABLED create_task_return(t)
        /\ (t \in DOMAIN tasks /\ tasks[t].status \in Terminal)
              => creq[t] \in {"started", "returned"}
        /\ creq[t] \in {"idle", "inserted"} => thr[t].pc = "unstarted"

\* create_task has returned an id while its task is RUNNING and the upstream
\* call is still to be made
C10_Witness ==
    \E t \in DOMAIN tasks :
        creq[t] = "returned" /\ tasks[t].status = "RUNNING" /\ thr[t].pc = "post"

--------------------------------------------------------------------------
\* C11: the thread of a task calls the upstream endpoint at most once, whatever
\* the call gives back, not before it has passed the credential check, and
\* not at all when HF_TOKEN is unset or empty.
C11_AtMostOneUpstreamCall ==
    \A t \in Ids :
        /\ posts[t] <= 1
        /\ HF_TOKEN \in {"None", ""} => posts[t] = 0
        /\ thr[t].pc \in {"unstarted", "ready", "post"} => posts[t] = 0
        /\ (thr[t].pc = "finished" /\ HF_TOKEN = "hf_secret") => posts[t] = 1

\* a task has finished FAILED after an upstream call that timed out, and that
\* call was its only one
C11_Witness ==
    \E t \in Ids :
        /\ thr[t].pc = "finished" /\ tasks[t].status = "FAILED"
        /\ thr[t].response.raised
        /\ posts[t] = 1

\* C12: from the step that writes DONE or FAILED onward the stored result of
\* the task stays as it is: no step changes the result of an entry whose
\* status is terminal.
C12_ResultFrozenAfterTerminal ==
    [][\A t \in DOMAIN tasks :
          tasks[t].status \in Terminal => tasks'[t].result = tasks[t].result]_vars

\* C13: a step that changes an existing entry is a step of the running thread
\* of that entry's task and changes no other entry; a step of a task's thread
\* leaves the entries of all other tasks as they are; and a task has one
\* thread, started once by its create_task call.
C13_TasksIsolated ==
    /\ [][\A t \in DOMAIN tasks :
            tasks'[t] # tasks[t] =>
                /\ thr[t].pc \notin {"unstarted", "finished", "died"}
                /\ thr'[t] # thr[t]
                /\ \A u \in Ids \ {t} : thr'[u] = thr[u]]_vars
    /\ [][\A t \in Ids :
            thr'[t] # thr[t] => \A u \in DOMAIN tasks \ {t} : tasks'[u] = tasks[u]]_vars
    /\ [][\A t \in Ids :
            /\ (thr[t].pc = "unstarted" /\ thr'[t].pc # "unstarted") =>
                  (creq[t] = "inserted" /\ creq'[t] = "started" /\ t \in DOMAIN tasks)
            /\ thr[t].pc # "unstarted" => thr'[t].pc \notin {"unstarted", "ready"} \/ thr'[t] = thr[t]]_vars

\* two tasks run at once: the thread of one has stored its result and is
\* about to write DONE, the other has failed and written FAILED
C13_Witness ==
    \E t, u \in DOMAIN tasks :
        /\ thr[t].pc = "store_status" /\ tasks[t] = Task("RUNNING", JsonResult(thr[t].result))
        /\ thr[u].pc = "except_result" /\ tasks[u] = Task("FAILED", None)

\* C14: no step replaces an existing entry by a fresh entry (RUNNING, no
\* result): a registration under an id that is in the store leaves the entry as
\* it is.
C14_ExistingEntryKept ==
    [][\A t \in DOMAIN tasks :
          tasks'[t] = Task("RUNNING", None) => tasks[t] = Task("RUNNING", None)]_vars

\* C15: no step removes an id from the store, so a get_status call that tests
\* an inserted id at line 61 goes on to line 63, finds the entry there and
\* answers 200, never "Task not found".
C15_EntriesNeverRemoved ==
    /\ [][DOMAIN tasks \subseteq DOMAIN tasks']_vars
    /\ [][\A r \in Readers :
            (rd[r].pc = "status_61" /\ rd[r].id \in DOMAIN tasks /\ rd'[r] # rd[r])
                => rd'[r].pc = "status_63"]_vars
    /\ [](\A r \in Readers : rd[r].pc = "status_63" => rd[r].id \in DOMAIN tasks)
    /\ [][\A r \in Readers :
            (rd[r].pc = "status_63" /\ rd'[r] # rd[r])
                => (rd'[r].pc = "responded" /\ rd'[r].resp.code = 200)]_vars

\* every task has been inserted and has finished, and a get_status call for
\* the oldest of them has been answered with its status
C15_Witness ==
    /\ DOMAIN tasks = Ids
    /\ \A t \in Ids : thr[t].pc = "finished"
    /\ \E r \in Readers :
          /\ rd[r].pc = "responded" /\ rd[r].op = "get_status" /\ rd[r].id = 1
          /\ rd[r].when = "polled"
          /\ rd[r].resp.code = 200 /\ rd[r].resp.status = tasks[1].status

--------------------------------------------------------------------------
\* the text, without the whitespace around it, is a Markdown fence around one
\* JSON document: the fence marker, a language tag or none, the document with
\* whitespace around it, the closing fence
IsFencedJson(text) ==
    LET s == Strip[text] IN
    /\ Len(s) >= 3 /\ s[1] = "FENCE" /\ s[Len(s)] = "FENCE"
    /\ \A i \in 2..(Len(s) - 1) : s[i] \in DocNames \cup {"ws"} \/ (i = 2 /\ s[i] = "json")
    /\ Cardinality({i \in 2..(Len(s) - 1) : s[i] \in DocNames}) = 1

\* the document inside the fence
EnclosedJson(text) ==
    LET s == Strip[text] IN JsonDoc(s[CHOOSE i \in 2..(Len(s) - 1) : s[i] \in DocNames])

\* C16: a task whose upstream answer is 200 with a generated text that is a
\* fence, with or without language tag, around a JSON object holding the three
\* lists, finishes DONE with that object as its result.
C16_FencedJsonDone ==
    \A t \in Ids :
        LET response == thr[t].response IN
        ( /\ thr[t].pc = "finished"
          /\ ~response.raised /\ response.status_code = 200 /\ response.envelope = "ok"
          /\ IsFencedJson(response.text)
          /\ EnclosedJson(response.text).type = "dict"
          /\ \A f \in Fields : EnclosedJson(response.text)[f].type = "list" )
        => tasks[t] = Task("DONE", JsonResult(EnclosedJson(response.text)))

--------------------------------------------------------------------------
FieldOrder == <<"ddl", "migrations", "queries">>

\* the fields of a parsed structure that hold no list
LacksList(j) == {i \in 1..Len(FieldOrder) : j[FieldOrder[i]].type # "list"}

\* the first of them in the order ddl, migrations, queries
FirstLacking(j) ==
    FieldOrder[CHOOSE i \in LacksList(j) : \A k \in LacksList(j) : i <= k]

\* C17: a task whose upstream text parses to a structure that holds no list in
\* ddl, migrations or queries is never DONE and never has that structure as
\* its result, and it finishes FAILED with an error that names the first such
\* field in the order ddl, migrations, queries.
C17_SchemaErrorNamesField ==
    \A t \in Ids :
        LET response == thr[t].response
            text == StripFence[Strip[response.text]]
        IN  ( /\ ~response.raised /\ response.status_code = 200 /\ response.envelope = "ok"
              /\ JsonParses[text]
              /\ LacksList(JsonLoads[text]) # {} )
            => /\ tasks[t].status # "DONE"
               /\ tasks[t].result.kind # "json"
               /\ thr[t].pc = "finished" =>
                     /\ tasks[t].status = "FAILED"
                     /\ tasks[t].result.kind = "error"
                     /\ Contains(tasks[t].result.error, FirstLacking(JsonLoads[text]))

--------------------------------------------------------------------------
\* C18: every step of a get_status or get_result call, from the arrival of the
\* request to its response, for a known or an unknown id and whatever the
\* answer, leaves the whole store as it is.
C18_ReadersReadOnly ==
    [][(\E r \in Readers : rd'[r] # rd[r]) => tasks' = tasks]_vars

\* get_result has answered 500 with the stored diagnostic for a FAILED task,
\* and the entry still holds that diagnostic
C18_Witness ==
    \E r \in Readers :
        /\ rd[r].pc = "responded" /\ rd[r].op = "get_result"
        /\ rd[r].resp.line = 73 /\ rd[r].resp.code = 500
        /\ tasks[rd[r].id].status = "FAILED"
        /\ tasks[rd[r].id].result.kind = "error"
        /\ rd[r].resp.detail = tasks[rd[r].id].result.error

--------------------------------------------------------------------------
\* the pieces of a text that are in the set S, in their order
Pieces(text, S) == SelectSeq(text, LAMBDA piece : piece \in S)

\* two lists of queries have the same first three items (or the same items,
\* when they have fewer)
SameFirstThree(a, b) ==
    \A i \in 1..3 : /\ i <= Len(a) <=> i <= Len(b)
                    /\ i <= Len(a) => a[i] = b[i]

\* C19: the prompt built from a request holds the request's DDL statements,
\* all of them and in order, and the id, text and run count of the first
\* min(3, n) of its n queries, in order, and of no other query; two requests
\* with the same DDL and the same first three queries give the same prompt.
C19_PromptEmbedsPreview ==
    prompt # NoPrompt =>
        LET n == Len(request.queries)
            k == IF n < 3 THEN n ELSE 3
        IN  /\ Pieces(prompt, DDLStatement) = request.ddl
            /\ Pieces(prompt, {q.queryid : q \in QueryItem})
                  = [i \in 1..k |-> request.queries[i].queryid]
            /\ Pieces(prompt, {q.query : q \in QueryItem})
                  = [i \in 1..k |-> request.queries[i].query]
            /\ Pieces(prompt, {ToString(q.runquantity) : q \in QueryItem})
                  = [i \in 1..k |-> ToString(request.queries[i].runquantity)]
            /\ \A other \in NewTaskRequests :
                  (other.ddl = request.ddl /\ SameFirstThree(other.queries, request.queries))
                      => Prompt(other) = prompt

\* the prompt has been built from a request with two DDL statements and four
\* queries, the fourth unlike the third
C19_Witness ==
    /\ prompt # NoPrompt
    /\ Len(request.ddl) = 2 /\ request.ddl[1] # request.ddl[2]
    /\ Len(request.queries) = 4
    /\ request.queries[4] # request.queries[3]

====
